---- MODULE Spec2Model ----
(***************************************************************************)
(* Model of gcloud/utils/cmdb.py, batch_request: the concurrent paginated  *)
(* fetch.  One probe call learns the record count, one page request per    *)
(* window is submitted to a thread pool, the pool is closed and joined,    *)
(* and the futures are read in submission order.                           *)
(*                                                                         *)
(* The main thread's position is pc; the pool's workers run the submitted  *)
(* tasks concurrently with the dispatch loop.  The adapter (func) and the  *)
(* backend behind it are inputs: the backend is fixed in Init and does not *)
(* change, so two successive calls see the same responses.                 *)
(***************************************************************************)
EXTENDS Integers, Sequences, FiniteSets, TLC, Bags

\* ------------------------------------------------------------- bounds
\* Largest record count the backend reports.
MaxCount == 3
\* Largest page size (the limit argument) a caller passes.
MaxLimit == 2
\* Number of worker threads of the pool (ThreadPool() takes the machine's).
PoolSize == 2
\* Longest more_receiver string, in characters.
MaxStr == 3
\* Longest receiver_group string, in characters.
MaxGroupStr == 3
\* Longest receiver_group list.
MaxGroupList == 2

VARIABLES
    func,                   \* argument func, the adapter: which attributes it has
    backend,                \* the remote service: probe outcome, record total, outcome per page
    limit,                  \* argument limit
    params,                 \* argument params, the caller's mapping
    pc,                     \* position of the calling thread in batch_request
    count,                  \* local count (line 48)
    data,                   \* local data (line 49)
    start,                  \* local start (line 50)
    pool,                   \* "none", "open" (line 53), "closed" (line 62)
    params_and_future_list, \* local list of {"params", "future"} (line 54)
    new_entry,              \* line 58: the entry built, its task in the pool, not yet appended
    idx,                    \* position of the for loop of line 66
    ret,                    \* the returned list, once pc = "returned"
    logs,                   \* logger.error entries of this call
    invoked,                \* bag of the requests func was invoked with in this call
    doneOrder,              \* indices of the page tasks in order of completion
    extractedOn,            \* indices of the page tasks get_data was applied to
    history                 \* the outcomes, with the returned list, of the earlier calls

\* get_notify_receivers
VARIABLES
    receiver_group,         \* argument receiver_group: a str or a list of group names
    more_receiver,          \* argument more_receiver: a str
    cc_result,              \* what client.cc.search_business answers
    notify_pc,              \* "off", "call", "returned", "raised"
    notify_result           \* the returned {"result", "message", "data"}

nvars == << receiver_group, more_receiver, cc_result, notify_pc, notify_result >>

vars == << func, backend, limit, params, pc, count, data, start, pool,
           params_and_future_list, new_entry, idx, ret, logs, invoked, doneOrder,
           extractedOn, history, nvars >>

\* ------------------------------------------------------------- values
Min(a, b) == IF a < b THEN a ELSE b

\* ceil(a / b) for b >= 1
CeilDiv(a, b) == (a + b - 1) \div b

\* Python None, and every response, as one record shape: truthy is bool(x),
\* result is x["result"], hasData says x["data"] is a mapping (not None),
\* count and info are x["data"]["count"] and x["data"]["info"].
NoneResp == [truthy |-> FALSE, result |-> FALSE, hasData |-> FALSE,
             count |-> 0, info |-> << >>]

\* The records of the backend are numbered 1..total; a page request
\* {start, limit} returns the records start+1 .. min(start+limit, total).
Items(total, s, l) ==
    [i \in 1..(IF s < total THEN Min(l, total - s) ELSE 0) |-> s + i]

\* Outcomes of one page request:
\*   "ok"         {"result": True,  "data": {"count": n, "info": [...]}}
\*   "fail_none"  {"result": False, "data": None}
\*   "fail_empty" {"result": False, "data": {"count": 0, "info": []}}
\*   "none"       None (a falsy response)
PageKinds == {"ok", "fail_none", "fail_empty", "none"}

Response(kind, total, s, l) ==
    CASE kind = "ok" ->
            [truthy |-> TRUE, result |-> TRUE, hasData |-> TRUE,
             count |-> total, info |-> Items(total, s, l)]
      [] kind = "fail_none" ->
            [truthy |-> TRUE, result |-> FALSE, hasData |-> FALSE,
             count |-> 0, info |-> << >>]
      [] kind = "fail_empty" ->
            [truthy |-> TRUE, result |-> FALSE, hasData |-> TRUE,
             count |-> 0, info |-> << >>]
      [] OTHER -> NoneResp

\* dict.update: the entries of p are written over those of d.
Update(d, p) ==
    [k \in (DOMAIN d) \cup (DOMAIN p) |-> IF k \in DOMAIN p THEN p[k] ELSE d[k]]

\* The fixed parameters the callers of this module build (kwargs of
\* get_business_host and get_business_host_topo): without the host filter
\* (no ip_list) and with it.  None of them has a "page" entry.
ParamChoices ==
    { [bk_biz_id |-> 2],
      [bk_biz_id |-> 2, host_property_filter |-> 1] }

\* The backend: what the probe answers, how many records there are, and
\* what each page of the range answers (by page number start \div limit + 1).
Backends(l) ==
    { [probeOk |-> FALSE, total |-> 0, pageKind |-> << >>] }
    \cup
    UNION { { [probeOk |-> TRUE, total |-> n, pageKind |-> k] :
                k \in [1..CeilDiv(n, l) -> PageKinds] } : n \in 0..MaxCount }

\* func(**request) for a page request: the response of the backend.  A page
\* past the last one of the range is answered with success and no records.
Func(request) ==
    LET s == request.page.start
        l == request.page.limit
        n == s \div l + 1
    IN  IF n \in DOMAIN backend.pageKind
          THEN Response(backend.pageKind[n], backend.total, s, l)
          ELSE Response("ok", backend.total, s, l)

\* func(page=..., **params) for the count request: it succeeds or fails as
\* the backend decides, and reports the total.
ProbeFunc(request) ==
    IF backend.probeOk
      THEN Response("ok", backend.total, request.page.start, request.page.limit)
      ELSE Response("fail_none", 0, 0, 1)

\* The adapters a caller passes as func: an API object of the client that
\* has a path attribute and a __name__ too, one that has a path and no
\* __name__, and a plain function, which has a __name__ and no path.
Adapters ==
    { [path |-> TRUE, name |-> TRUE],
      [path |-> TRUE, name |-> FALSE],
      [path |-> FALSE, name |-> TRUE] }

\* ------------------------------------------------------------- batch_request
\* func.path in the message of line 45: AttributeError without the attribute.
ProbeLogRaises == ~func.path

\* func.__name__ in the message of line 72: AttributeError without it.
PageLogRaises == ~func.name

\* page={"start": 0, "limit": 1}
\* (faulty variant: the count request asks for a whole page)
ProbePageWide == [limit |-> limit, start |-> 0]
ProbePage == [limit |-> 1, start |-> 0]

\* Keyword arguments of the probe call: page plus **params.
ProbeRequest == Update(params, [page |-> ProbePage])

\* not result["result"]
\* (faulty variant: the probe's success flag is not tested)
ProbeFailedNever(result) == FALSE
ProbeFailed(result) == ~result.result

\* get_count, by default x["data"]["count"]; it raises on "data": None.
GetRaises(result) == ~result.hasData
get_count(result) == result.count

\* get_data, by default x["data"]["info"]; it raises on "data": None.
get_data(result) == result.info

\* data = []
\* (faulty variant: the probe's records are kept in data)
InitialDataFromProbe == get_data(ProbeFunc(ProbeRequest))
InitialData == << >>

\* while start < count
\* (faulty variant: start <= count)
LoopCondInclusive == start <= count
LoopCond == start < count

\* request_params = {"page": {"limit": limit, "start": start}}
\* request_params.update(params)
\* (faulty variant: the size is clamped to the records remaining)
RequestParamsClamped ==
    Update([page |-> [limit |-> Min(limit, count - start), start |-> start]], params)
RequestParams ==
    Update([page |-> [limit |-> limit, start |-> start]], params)

\* The caller's mapping after lines 56-57: request_params is a new dict and
\* update(params) only reads params.
\* (faulty variant: the page entry is written into params itself)
CallerParamsAliased ==
    Update(params, [page |-> [limit |-> limit, start |-> start]])
CallerParams == params

\* start += limit
\* (faulty variant: the offset advances by one record)
NextStartByOne == start + 1
NextStart == start + limit

\* A pending result handle, as apply_async returns it.
NewFuture == [state |-> "pending", value |-> NoneResp]

\* The tasks handed to the pool so far, in the order of the apply_async
\* calls: those of the entries appended and, last, the one of the entry that
\* is being appended.
Tasks == params_and_future_list \o new_entry

Running == { i \in 1..Len(Tasks) : Tasks[i].future.state = "running" }
Pending == { i \in 1..Len(Tasks) : Tasks[i].future.state = "pending" }
Completed == { i \in 1..Len(Tasks) : Tasks[i].future.state = "done" }

\* kwds=request_params: the keyword arguments task i is invoked with are the
\* mapping built in the loop turn that submitted it.
\* (faulty variant: one mapping is shared by all turns, so a task is invoked
\* with the page written last)
TaskRequestShared(i) == Tasks[Len(Tasks)].params
TaskRequest(i) == Tasks[i].params

\* The pool writes the handle of task i; the entry that holds the handle is
\* in the list or still being appended.
SetFuture(i, f) ==
    IF i <= Len(params_and_future_list)
      THEN /\ params_and_future_list' =
                [params_and_future_list EXCEPT ![i].future = f]
           /\ UNCHANGED new_entry
      ELSE /\ new_entry' = [new_entry EXCEPT ![1].future = f]
           /\ UNCHANGED params_and_future_list

\* The pool has run every task submitted to it.
PoolDrained == Pending = {} /\ Running = {}

\* future.get() returns once the task has completed.
FutureReady(i) == params_and_future_list[i].future.state = "done"

\* pool.join() returns
\* (faulty variant: the merge does not wait for the pool)
JoinSkipped == TRUE
JoinReturns == PoolDrained

\* for params_and_future in params_and_future_list: the order of the reads.
\* (faulty variant: results are read in completion order)
CompletionOrder == doneOrder
MergeOrder == [i \in 1..Len(params_and_future_list) |-> i]

\* if not result
PageFailed(result) == ~result.truthy

Terminal == {"returned", "raised"}

\* A Python str is a sequence of characters.
EmptyStr == << >>

\* No result yet (None).
NoResult == [result |-> FALSE, data |-> EmptyStr, hasData |-> FALSE]

\* get_notify_receivers is not being called.
NotifyOff ==
    /\ receiver_group = [isStr |-> TRUE, str |-> EmptyStr, list |-> << >>]
    /\ more_receiver = EmptyStr
    /\ cc_result = [result |-> FALSE, count |-> 0, info |-> << >>]
    /\ notify_pc = "off"
    /\ notify_result = NoResult

Init ==
    /\ limit \in 1..MaxLimit
    /\ backend \in Backends(limit)
    /\ func \in Adapters
    /\ params \in ParamChoices
    /\ pc = "idle"
    /\ count = 0
    /\ data = << >>
    /\ start = 0
    /\ pool = "none"
    /\ params_and_future_list = << >>
    /\ new_entry = << >>
    /\ idx = 0
    /\ ret = << >>
    /\ logs = << >>
    /\ invoked = EmptyBag
    /\ doneOrder = << >>
    /\ extractedOn = {}
    /\ history = {}
    /\ NotifyOff

\* Line 42, the call: func(page={"start": 0, "limit": 1}, **params).  A
\* "page" entry in params is a duplicate keyword argument: TypeError.
ProbeCall ==
    /\ pc = "idle"
    /\ IF "page" \in DOMAIN params
         THEN pc' = "raised" /\ UNCHANGED invoked
         ELSE pc' = "probing" /\ invoked' = invoked (+) SetToBag({ProbeRequest})
    /\ UNCHANGED << func, new_entry, backend, limit, params, count, data, start, pool,
                    params_and_future_list, idx, ret, logs, doneOrder,
                    extractedOn, history >>
    /\ UNCHANGED nvars

\* Lines 42-54: the probe returns; on failure build the message from
\* func.path, log and return [], else take the count and set up the locals
\* and the pool.
ProbeReturn ==
    /\ pc = "probing"
    /\ LET result == ProbeFunc(ProbeRequest)
       IN  IF ProbeFailed(result)
             THEN /\ IF ProbeLogRaises
                       THEN pc' = "raised" /\ UNCHANGED << logs, ret >>
                       ELSE /\ logs' = Append(logs, [at |-> "count", window |-> 0])
                            /\ ret' = << >>
                            /\ pc' = "returned"
                  /\ UNCHANGED << count, data, start, pool, params_and_future_list >>
             ELSE IF GetRaises(result)
                    THEN /\ pc' = "raised"
                         /\ UNCHANGED << logs, ret, count, data, start, pool,
                                         params_and_future_list >>
                    ELSE /\ count' = get_count(result)
                         /\ data' = InitialData
                         /\ start' = 0
                         /\ pool' = "open"
                         /\ params_and_future_list' = << >>
                         /\ pc' = "dispatch"
                         /\ UNCHANGED << logs, ret >>
    /\ UNCHANGED << func, new_entry, backend, limit, params, idx, invoked, doneOrder,
                    extractedOn, history >>
    /\ UNCHANGED nvars

\* Lines 55-58: a turn of the while loop builds the request and evaluates
\* the entry to append; pool.apply_async hands the task to the pool, whose
\* workers may run it from here on.
Submit ==
    /\ pc = "dispatch"
    /\ LoopCond
    /\ new_entry' = << [params |-> RequestParams, future |-> NewFuture] >>
    /\ params' = CallerParams
    /\ pc' = "append"
    /\ UNCHANGED << func, backend, limit, count, data, start, pool,
                    params_and_future_list, idx, ret, logs, invoked,
                    doneOrder, extractedOn, history >>
    /\ UNCHANGED nvars

\* Lines 58-60: the entry is appended to the list and start advances.
Record ==
    /\ pc = "append"
    /\ params_and_future_list' = params_and_future_list \o new_entry
    /\ new_entry' = << >>
    /\ start' = NextStart
    /\ pc' = "dispatch"
    /\ UNCHANGED << func, backend, limit, params, count, data, pool, idx, ret,
                    logs, invoked, doneOrder, extractedOn, history >>
    /\ UNCHANGED nvars

\* Line 62: the loop has ended, pool.close().
Close ==
    /\ pc = "dispatch"
    /\ ~LoopCond
    /\ pool' = "closed"
    /\ pc' = "join"
    /\ UNCHANGED << func, new_entry, backend, limit, params, count, data, start,
                    params_and_future_list, idx, ret, logs, invoked,
                    doneOrder, extractedOn, history >>
    /\ UNCHANGED nvars

\* Line 63: pool.join() blocks until the pool has drained.
Join ==
    /\ pc = "join"
    /\ JoinReturns
    /\ pc' = "merge"
    /\ idx' = 1
    /\ UNCHANGED << func, new_entry, backend, limit, params, count, data, start, pool,
                    params_and_future_list, ret, logs, invoked, doneOrder,
                    extractedOn, history >>
    /\ UNCHANGED nvars

\* Lines 66-77: one turn of the for loop reads one future; on a falsy
\* result build the message from func.__name__, log and return [].
MergeStep ==
    /\ pc = "merge"
    /\ idx <= Len(MergeOrder)
    /\ FutureReady(MergeOrder[idx])
    /\ LET i == MergeOrder[idx]
           result == params_and_future_list[i].future.value
       IN  IF PageFailed(result)
             THEN /\ IF PageLogRaises
                       THEN pc' = "raised" /\ UNCHANGED << logs, ret >>
                       ELSE /\ logs' = Append(logs, [at |-> "page", window |-> i])
                            /\ ret' = << >>
                            /\ pc' = "returned"
                  /\ UNCHANGED << data, idx, extractedOn >>
             ELSE /\ extractedOn' = extractedOn \cup {i}
                  /\ IF GetRaises(result)
                       THEN pc' = "raised" /\ UNCHANGED << data, idx >>
                       ELSE /\ data' = data \o get_data(result)
                            /\ idx' = idx + 1
                            /\ UNCHANGED pc
                  /\ UNCHANGED << logs, ret >>
    /\ UNCHANGED << func, new_entry, backend, limit, params, count, start, pool,
                    params_and_future_list, invoked, doneOrder, history >>
    /\ UNCHANGED nvars

\* Line 79: return data.
Return ==
    /\ pc = "merge"
    /\ idx > Len(MergeOrder)
    /\ ret' = data
    /\ pc' = "returned"
    /\ UNCHANGED << func, new_entry, backend, limit, params, count, data, start, pool,
                    params_and_future_list, idx, logs, invoked, doneOrder,
                    extractedOn, history >>
    /\ UNCHANGED nvars

\* A worker of the pool invokes func with the keyword arguments of a waiting
\* task.  At most PoolSize invocations run at a time; in which order the
\* waiting tasks are invoked is not guaranteed.
WorkerStart(i) ==
    /\ pool # "none"
    /\ i \in Pending
    /\ Cardinality(Running) < PoolSize
    /\ SetFuture(i, [state |-> "running", value |-> NoneResp])
    /\ invoked' = invoked (+) SetToBag({TaskRequest(i)})
    /\ UNCHANGED << func, backend, limit, params, pc, count, data, start, pool, idx,
                    ret, logs, doneOrder, extractedOn, history >>
    /\ UNCHANGED nvars

\* func returns in a worker: the task's future holds the response.
WorkerFinish(i) ==
    /\ i \in Running
    /\ SetFuture(i, [state |-> "done", value |-> Func(TaskRequest(i))])
    /\ doneOrder' = Append(doneOrder, i)
    /\ UNCHANGED << func, backend, limit, params, pc, count, data, start, pool, idx,
                    ret, logs, invoked, extractedOn, history >>
    /\ UNCHANGED nvars

\* The page tasks of this call completed in the order of their submission.
CompletedInOrder == doneOrder = [i \in 1..Len(doneOrder) |-> i]

\* The caller calls batch_request again with the same arguments, any number
\* of times; the locals and the pool of the call that ended are gone.
NextCall ==
    /\ pc \in Terminal
    /\ history' = history \cup { [outcome |-> pc, ret |-> ret] }
    /\ pc' = "idle"
    /\ count' = 0
    /\ data' = << >>
    /\ start' = 0
    /\ pool' = "none"
    /\ params_and_future_list' = << >>
    /\ new_entry' = << >>
    /\ idx' = 0
    /\ ret' = << >>
    /\ logs' = << >>
    /\ invoked' = EmptyBag
    /\ doneOrder' = << >>
    /\ extractedOn' = {}
    /\ UNCHANGED << func, backend, limit, params >>
    /\ UNCHANGED nvars

Next ==
    \/ ProbeCall
    \/ ProbeReturn
    \/ Submit
    \/ Record
    \/ Close
    \/ Join
    \/ MergeStep
    \/ Return
    \/ \E i \in 1..Len(Tasks) : WorkerStart(i)
    \/ \E i \in 1..Len(Tasks) : WorkerFinish(i)
    \/ NextCall

\* batch_request called any number of times with the same arguments.
Spec == Init /\ [][Next]_vars

\* The steps of one call: those of the calling thread and those of the
\* pool's workers.
MainStep ==
    \/ ProbeCall \/ ProbeReturn \/ Submit \/ Record
    \/ Close \/ Join \/ MergeStep \/ Return

WorkerStep ==
    \E i \in 1..Len(Tasks) : WorkerStart(i) \/ WorkerFinish(i)

NextOneCall == MainStep \/ WorkerStep

\* One call of batch_request, for every adapter, limit, parameter mapping
\* and backend.  A repeated call starts from the same locals (NextCall), so
\* the states of Spec differ from the states of SpecCall in history only.
SpecCall == Init /\ [][NextOneCall]_vars

\* One call, with the scheduling the termination claim assumes: the calling
\* thread keeps running, a free worker takes a waiting task, and every
\* adapter invocation returns.
FairSpec ==
    /\ Init
    /\ [][NextOneCall]_vars
    /\ WF_vars(MainStep)
    /\ WF_vars(WorkerStep)

\* ------------------------------------------------------------- get_notify_receivers
\* Code points of the characters used (ord).
Ord(c) ==
    CASE c = " " -> 32
      [] c = "," -> 44
      [] c = "M" -> 77
      [] c = "P" -> 80
      [] c = "a" -> 97
      [] c = "b" -> 98

\* All strings over the alphabet of at most n characters.
Strings(alphabet, n) == UNION { [1..k -> alphabet] : k \in 0..n }

\* a < b for str: lexicographic by code point, a proper prefix first.
RECURSIVE StrLess(_, _)
StrLess(a, b) ==
    IF b = << >> THEN FALSE
    ELSE IF a = << >> THEN TRUE
    ELSE IF Head(a) # Head(b) THEN Ord(Head(a)) < Ord(Head(b))
    ELSE StrLess(Tail(a), Tail(b))

\* s.split(sep): the pieces between the separators; "".split(",") is [""].
RECURSIVE Split(_, _)
Split(s, sep) ==
    IF \A k \in 1..Len(s) : s[k] # sep
      THEN << s >>
      ELSE LET k == CHOOSE x \in 1..Len(s) :
                        s[x] = sep /\ \A y \in 1..(x - 1) : s[y] # sep
           IN  << SubSeq(s, 1, k - 1) >> \o Split(SubSeq(s, k + 1, Len(s)), sep)

\* s.strip(): leading and trailing whitespace removed.
RECURSIVE Strip(_)
Strip(s) ==
    IF s = << >> THEN s
    ELSE IF Head(s) = " " THEN Strip(Tail(s))
    ELSE IF s[Len(s)] = " " THEN Strip(SubSeq(s, 1, Len(s) - 1))
    ELSE s

\* sep.join(names)
RECURSIVE StrJoin(_, _)
StrJoin(names, sep) ==
    IF names = << >> THEN EmptyStr
    ELSE IF Len(names) = 1 THEN names[1]
    ELSE names[1] \o << sep >> \o StrJoin(Tail(names), sep)

\* sorted(S) for a set of str.
RECURSIVE SortedList(_)
SortedList(S) ==
    IF S = {} THEN << >>
    ELSE LET least == CHOOSE x \in S : \A y \in S : x = y \/ StrLess(x, y)
         IN  << least >> \o SortedList(S \ {least})

ToSet(names) == { names[k] : k \in 1..Len(names) }

\* sorted(set(receivers))
\* (faulty variant: the names are joined as collected)
FinalReceiversAsCollected(receivers) == receivers
FinalReceivers(receivers) == SortedList(ToSet(receivers))

\* [name.strip() for name in more_receiver.split(",")]
MoreReceivers(more) ==
    LET parts == Split(more, ",")
    IN  [k \in 1..Len(parts) |-> Strip(parts[k])]

\* CC_V2_ROLE_MAP: the role field of the business record for a group name.
KnownGroups == { << "M" >>, << "P" >> }
CC_V2_ROLE_MAP(group) ==
    IF group = << "M" >> THEN "bk_biz_maintainer" ELSE "bk_biz_productor"

\* not receiver_group: the empty str or the empty list.
GroupEmpty(rg) == IF rg.isStr THEN rg.str = EmptyStr ELSE rg.list = << >>

\* if isinstance(receiver_group, str): receiver_group = receiver_group.split(",")
GroupList(rg) == IF rg.isStr THEN Split(rg.str, ",") ELSE rg.list

\* for group in receiver_group: receivers.extend(biz_data[...].split(","))
RECURSIVE GroupReceivers(_, _)
GroupReceivers(groups, biz_data) ==
    IF groups = << >> THEN << >>
    ELSE Split(biz_data[CC_V2_ROLE_MAP(Head(groups))], ",")
            \o GroupReceivers(Tail(groups), biz_data)

\* The names a role field of a business record holds.
RoleValues == { << "b", ",", "a" >>, << "a" >> }

\* Answers of client.cc.search_business: a failure, no business, two
\* businesses, or the one business with its role fields.
BizData == [bk_biz_maintainer : RoleValues, bk_biz_productor : RoleValues]
CcResults ==
    { [result |-> FALSE, count |-> 0, info |-> << >>],
      [result |-> TRUE, count |-> 0, info |-> << >>] }
    \cup { [result |-> TRUE, count |-> 2, info |-> << b, b >>] :
              b \in { [bk_biz_maintainer |-> << "a" >>, bk_biz_productor |-> << "a" >>] } }
    \cup { [result |-> TRUE, count |-> 1, info |-> << b >>] : b \in BizData }

ReceiverGroups ==
    { [isStr |-> TRUE, str |-> g, list |-> << >>] :
          g \in Strings({"M", "P", ","}, MaxGroupStr) }
    \cup
    { [isStr |-> FALSE, str |-> EmptyStr, list |-> l] :
          l \in UNION { [1..k -> KnownGroups] : k \in 0..MaxGroupList } }

InitNotify ==
    /\ receiver_group \in ReceiverGroups
    /\ more_receiver \in Strings({"a", "b", ",", " "}, MaxStr)
    /\ cc_result \in CcResults
    /\ notify_pc = "call"
    /\ notify_result = NoResult
    /\ limit = 1
    /\ backend = [probeOk |-> FALSE, total |-> 0, pageKind |-> << >>]
    /\ func = [path |-> TRUE, name |-> TRUE]
    /\ params = [bk_biz_id |-> 2]
    /\ pc = "off"
    /\ count = 0
    /\ data = << >>
    /\ start = 0
    /\ pool = "none"
    /\ params_and_future_list = << >>
    /\ new_entry = << >>
    /\ idx = 0
    /\ ret = << >>
    /\ logs = << >>
    /\ invoked = EmptyBag
    /\ doneOrder = << >>
    /\ extractedOn = {}
    /\ history = {}

\* Lines 196-251, the whole call.
GetNotifyReceivers ==
    /\ notify_pc = "call"
    /\ LET more_receivers == MoreReceivers(more_receiver)
           groups == GroupList(receiver_group)
       IN  IF GroupEmpty(receiver_group)
             THEN /\ notify_result' = [result |-> TRUE, hasData |-> TRUE,
                                       data |-> StrJoin(more_receivers, ",")]
                  /\ notify_pc' = "returned"
           ELSE IF ~cc_result.result \/ cc_result.count # 1
             THEN /\ notify_result' = [result |-> FALSE, hasData |-> FALSE,
                                       data |-> EmptyStr]
                  /\ notify_pc' = "returned"
           ELSE IF \E k \in 1..Len(groups) : groups[k] \notin KnownGroups
             THEN /\ notify_pc' = "raised"
                  /\ UNCHANGED notify_result
           ELSE LET receivers ==
                       GroupReceivers(groups, cc_result.info[1])
                       \o (IF more_receiver # EmptyStr THEN more_receivers ELSE << >>)
                IN  /\ notify_result' =
                          [result |-> TRUE, hasData |-> TRUE,
                           data |-> StrJoin(FinalReceivers(receivers), ",")]
                    /\ notify_pc' = "returned"
    /\ UNCHANGED << receiver_group, more_receiver, cc_result >>
    /\ UNCHANGED << func, new_entry, backend, limit, params, pc, count, data, start, pool,
                    params_and_future_list, idx, ret, logs, invoked, doneOrder,
                    extractedOn, history >>

NextNotify == GetNotifyReceivers

SpecNotify == InitNotify /\ [][NextNotify]_vars

\* ------------------------------------------------------------- claims
\* Number of windows the range [0, total) has at this limit.
NumWindows == CeilDiv(backend.total, limit)

\* The backend answers window n with a failure (falsy, or success flag false).
WindowFails(n) == backend.pageKind[n] # "ok"

SomeWindowFails == backend.probeOk /\ \E n \in 1..NumWindows : WindowFails(n)
AllWindowsSucceed == backend.probeOk /\ \A n \in 1..NumWindows : ~WindowFails(n)

RECURSIVE Flatten(_)
Flatten(seqs) ==
    IF seqs = << >> THEN << >> ELSE Head(seqs) \o Flatten(Tail(seqs))

\* The item lists of the page tasks, in submission order, concatenated.
ExpectedMerge ==
    Flatten([i \in 1..Len(params_and_future_list) |->
                params_and_future_list[i].future.value.info])

\* The page a request asks for.
PageOf(request) == request.page

\* C1: when the probe succeeded and at least one window's response indicates
\* failure (falsy, or success flag false), batch_request ends by returning
\* the empty list.
C1_AllOrNothing ==
    (pc \in Terminal /\ SomeWindowFails) => (pc = "returned" /\ ret = << >>)

\* C2: when the probe and every window succeed, the returned list is the
\* concatenation of the windows' item lists in submission order, which are in
\* ascending offset order; its length is the sum of the windows' item counts
\* (the backend's total) and it holds nothing of the probe response.
C2_OrderPreservingMerge ==
    (pc = "returned" /\ AllWindowsSucceed) =>
        /\ Len(params_and_future_list) = NumWindows
        /\ \A i \in 1..Len(params_and_future_list) :
              PageOf(params_and_future_list[i].params).start = (i - 1) * limit
        /\ ret = ExpectedMerge
        /\ ret = [r \in 1..backend.total |-> r]

\* C2 witness: two or more windows completed out of submission order and the
\* merged list came back in window order.
C2_Witness ==
    /\ pc = "returned"
    /\ AllWindowsSucceed
    /\ Len(params_and_future_list) >= 2
    /\ doneOrder[1] = 2
    /\ ret = [r \in 1..backend.total |-> r]

\* C3: when the probe's success flag is false, no window is ever planned,
\* submitted or fetched, the adapter is invoked once, and the call returns
\* the empty list.
C3_ProbeFailureAborts ==
    ~backend.probeOk =>
        /\ Tasks = << >>
        /\ pool = "none"
        /\ BagCardinality(invoked) <= 1
        /\ pc \in Terminal => (pc = "returned" /\ ret = << >> /\ BagCardinality(invoked) = 1)

\* C3 witness: a call that ended after a failed probe.
C3_Witness ==
    /\ ~backend.probeOk
    /\ pc = "returned"
    /\ ret = << >>
    /\ BagCardinality(invoked) = 1
    /\ logs # << >>

\* C4: after a successful probe, every terminal state has all planned
\* windows submitted and completed, and a failure is declared (logged) only
\* with the pool drained.
C4_NoEarlyCancellation ==
    (backend.probeOk /\ (pc \in Terminal \/ logs # << >>)) =>
        /\ Len(params_and_future_list) = NumWindows
        /\ Completed = 1..NumWindows
        /\ BagCardinality(invoked) = 1 + NumWindows

\* C4 witness: the task that completed first had failed, a later window
\* still ran to completion, and the call ended.
C4_Witness ==
    /\ pc \in Terminal
    /\ backend.probeOk
    /\ NumWindows >= 2
    /\ doneOrder # << >>
    /\ WindowFails(doneOrder[1])
    /\ ~WindowFails(doneOrder[Len(doneOrder)])
    /\ Completed = 1..NumWindows

\* C5: no page fetch starts before the probe has returned, and no result is
\* read or merged while a submitted task is pending or running.
C5_PhaseSeparation ==
    /\ pc \in {"idle", "probing"} => (Tasks = << >> /\ BagCardinality(invoked) <= 1)
    /\ (pc = "merge" \/ extractedOn # {} \/ (backend.probeOk /\ logs # << >>)) =>
          PoolDrained

\* C5 witness: the merge is under way over two or more windows, all complete.
C5_Witness ==
    /\ pc = "merge"
    /\ idx = 2
    /\ Len(params_and_future_list) >= 2
    /\ PoolDrained
    /\ extractedOn = {1}

\* C6: the submitted windows are start = 0, limit, 2*limit, ... below count,
\* in ascending order, each of size limit; once the loop has ended there are
\* ceil(count/limit) of them and every offset of [0, count) lies in exactly
\* one window.
C6_PagePlan ==
    /\ \A i \in 1..Len(Tasks) :
          /\ PageOf(Tasks[i].params) = [limit |-> limit, start |-> (i - 1) * limit]
          /\ (i - 1) * limit < count
    /\ pool = "closed" =>
          /\ new_entry = << >>
          /\ Len(params_and_future_list) = CeilDiv(count, limit)
          /\ \A r \in 0..(count - 1) :
                Cardinality({ i \in 1..Len(params_and_future_list) :
                    LET w == PageOf(params_and_future_list[i].params)
                    IN  w.start <= r /\ r < w.start + w.limit }) = 1

\* C6 witness: count 3 at limit 2 gives the windows {0,2} and {2,2}; the last
\* one asks for 2 records with 1 remaining.
C6_Witness ==
    /\ pool = "closed"
    /\ count = 3
    /\ limit = 2
    /\ Len(params_and_future_list) = 2
    /\ PageOf(params_and_future_list[2].params) = [limit |-> 2, start |-> 2]

\* C7: with a successful probe and a count of 0 only the probe call is made,
\* no window is planned or submitted, and the call returns the empty list.
C7_ZeroRecords ==
    (backend.probeOk /\ backend.total = 0) =>
        /\ Tasks = << >>
        /\ BagCardinality(invoked) <= 1
        /\ pc # "raised"
        /\ pc = "returned" => (ret = << >> /\ BagCardinality(invoked) = 1 /\ logs = << >>)

\* C7 witness: a call over an empty range has returned.
C7_Witness ==
    /\ backend.probeOk
    /\ backend.total = 0
    /\ pc = "returned"
    /\ count = 0
    /\ pool = "closed"
    /\ BagCardinality(invoked) = 1

\* C8: batch_request never ends in an exception, returns the empty list on
\* any failure, and never applies the item extractor to a response that
\* reports failure.
C8_NeverRaises ==
    /\ pc # "raised"
    /\ (pc = "returned" /\ (~backend.probeOk \/ SomeWindowFails)) => ret = << >>
    /\ \A i \in extractedOn : params_and_future_list[i].future.value.result

\* C9: every later call with the same arguments against the same backend
\* ends as the earlier ones did, with the same list.
C9_Determinism ==
    pc \in Terminal =>
        \A c \in history : c.outcome = pc /\ c.ret = ret

\* C9 witness: the pages of a second call completed out of submission order
\* and it returned the two or more records, in the order, the first call
\* returned.
C9_Witness ==
    /\ history # {}
    /\ pc = "returned"
    /\ Len(ret) >= 2
    /\ ~CompletedInOrder
    /\ \A c \in history : c.outcome = "returned" /\ c.ret = ret

\* The probe request the claims speak of: page {start 0, limit 1} plus the
\* caller's parameters.
ProbeRequestOf(p) == Update(p, [page |-> [limit |-> 1, start |-> 0]])

\* The requests of the planned windows of [0, total).  At limit 1 the request
\* of the first window is the probe request over again.
WindowRequests ==
    { Update(params, [page |-> [limit |-> limit, start |-> (n - 1) * limit]]) :
        n \in 1..NumWindows }

\* C10: at the end of a call the adapter has been invoked once for the probe,
\* with page {start 0, limit 1} plus the caller's parameters, and once per
\* planned window when the probe succeeded: 1 + ceil(count/limit) in all,
\* none of them twice.
C10_ExactlyOnce ==
    /\ BagCardinality(invoked) <= 1 + (IF backend.probeOk THEN NumWindows ELSE 0)
    /\ pc \notin {"idle"} => CopiesIn(ProbeRequestOf(params), invoked) >= 1
    /\ pc \in Terminal =>
          /\ BagCardinality(invoked) = 1 + (IF backend.probeOk THEN NumWindows ELSE 0)
          /\ \A r \in BagToSet(invoked) \cup {ProbeRequestOf(params)} :
                CopiesIn(r, invoked) =
                    (IF r = ProbeRequestOf(params) THEN 1 ELSE 0)
                    + (IF backend.probeOk /\ r \in WindowRequests THEN 1 ELSE 0)
          /\ backend.probeOk => \A r \in WindowRequests : CopiesIn(r, invoked) >= 1

\* C10 witness: a call with a failing window ended with 1 + 2 invocations.
C10_Witness ==
    /\ pc \in Terminal
    /\ SomeWindowFails
    /\ limit = 2
    /\ NumWindows = 2
    /\ BagCardinality(invoked) = 3

\* The lowest window the backend answers with a failure.
LowestFailing == CHOOSE n \in 1..NumWindows :
                    WindowFails(n) /\ \A m \in 1..(n - 1) : ~WindowFails(m)

\* The page tasks a worker has begun to run.
Started == Running \cup Completed

\* C12 (as claimed): no page fetch begins until the complete plan of windows
\* for [0, count) has been produced and handed to the pool.
C12_PlanBeforeDispatch ==
    (Started # {}) => Len(Tasks) = CeilDiv(count, limit)

\* C12 (amended): a page fetch begins only after the probe has returned and
\* its own window has been planned and submitted to the pool (it may begin
\* before the list holds the window's entry, and while later windows are not
\* yet planned); the fetches that have begun, in whatever order, are one per
\* started task, each with the window its own task was submitted with; and
\* the pool is closed only once the whole plan has been submitted.
C12_FetchAfterOwnWindow ==
    /\ pc \in {"idle", "probing"} => (BagCardinality(invoked) <= 1 /\ Tasks = << >>)
    /\ BagCardinality(invoked) = (IF pc = "idle" THEN 0 ELSE 1) + Cardinality(Started)
    /\ \A i \in Started :
          CopiesIn(Tasks[i].params, invoked) =
              1 + (IF Tasks[i].params = ProbeRequestOf(params) THEN 1 ELSE 0)
    /\ \A i \in 1..Len(Tasks) : \A k \in 1..Len(Tasks) :
          i < k => PageOf(Tasks[i].params).start < PageOf(Tasks[k].params).start
    /\ pool = "closed" =>
          (new_entry = << >> /\ Len(params_and_future_list) = CeilDiv(count, limit))

\* C12 witness: the second window's fetch has begun before the first one's,
\* its entry not yet in the list, while the dispatch loop still has a window
\* to plan.
C12_Witness ==
    /\ pc = "append"
    /\ Len(params_and_future_list) = 1
    /\ Started = {2}
    /\ Pending = {1}
    /\ BagCardinality(invoked) = 2
    /\ CopiesIn(Tasks[2].params, invoked) = 1
    /\ NextStart < count

\* C13: a call has logged exactly one error entry when it ends in failure
\* (probe failed, or at least one window failed) and none otherwise.
C13_LoggingMatchesOutcome ==
    pc \in Terminal =>
        Len(logs) = (IF ~backend.probeOk \/ SomeWindowFails THEN 1 ELSE 0)

\* C14: when several windows fail, the failure that is logged and ends the
\* merge is that of the failing window with the lowest offset, and no window
\* from that one on is extracted.
C14_FailureInWindowOrder ==
    (pc \in Terminal /\ backend.probeOk
        /\ Cardinality({ n \in 1..NumWindows : WindowFails(n) }) >= 2) =>
        /\ logs = << [at |-> "page", window |-> LowestFailing] >>
        /\ extractedOn = 1..(LowestFailing - 1)

\* Every page task holds its own request: the caller's entries plus the page
\* of its own window, no two tasks the same page, and the caller's mapping
\* has no page entry.
FreshRequests ==
    /\ "page" \notin DOMAIN params
    /\ LET tasks == Tasks
       IN  \A i \in 1..Len(tasks) :
              /\ tasks[i].params =
                    Update([page |-> [limit |-> limit, start |-> (i - 1) * limit]], params)
              /\ \A j \in 1..Len(tasks) :
                    i # j => PageOf(tasks[i].params) # PageOf(tasks[j].params)

\* C16: no step of batch_request changes the caller's mapping, and every
\* page request is a mapping of its own holding its own window's page.
C16_CallerParamsUnchanged == [][params' = params /\ FreshRequests']_vars

\* C16 witness: a call with a filter entry in params and two windows ended,
\* the second task holding the second window's page.
C16_Witness ==
    /\ pc \in Terminal
    /\ DOMAIN params = {"bk_biz_id", "host_property_filter"}
    /\ Len(params_and_future_list) = 2
    /\ PageOf(params_and_future_list[2].params) = [limit |-> limit, start |-> limit]
    /\ DOMAIN params_and_future_list[2].params =
          {"bk_biz_id", "host_property_filter", "page"}

\* What the dispatch loop has done when a call that probed successfully ends.
DispatchComplete ==
    backend.probeOk =>
        (/\ pool = "closed"
         /\ ~LoopCond
         /\ Len(params_and_future_list) = CeilDiv(backend.total, limit))

\* C15: under fair scheduling every call eventually reaches a terminal state,
\* Done with the merged list or Failed with the empty list (both are a
\* return), having made exactly ceil(count/limit) submissions.
C15_Termination ==
    (pc = "idle") ~> (pc = "returned" /\ DispatchComplete)

\* The part of C15 that holds of the code: every call ends, by a return or
\* by the exception of the item extractor, after exactly ceil(count/limit)
\* submissions.
TerminatesOrRaises ==
    (pc = "idle") ~> (pc \in Terminal /\ DispatchComplete)

\* The recipient list a result carries.
Recipients == Split(notify_result.data, ",")

\* Strictly ascending: sorted and free of duplicates.
SortedNoDuplicates(names) ==
    \A k \in 1..(Len(names) - 1) : StrLess(names[k], names[k + 1])

\* C11 (as claimed): for every receiver_group, empty or not, and every
\* more_receiver a successful result carries a sorted, duplicate-free
\* recipient list.
C11_RecipientsSortedUnique ==
    (notify_pc = "returned" /\ notify_result.result) =>
        SortedNoDuplicates(Recipients)

\* C11 (amended): for every non-empty receiver_group and every more_receiver
\* a successful result carries a sorted, duplicate-free recipient list.
C11_RecipientsSortedUniqueWithGroup ==
    (notify_pc = "returned" /\ notify_result.result /\ ~GroupEmpty(receiver_group)) =>
        SortedNoDuplicates(Recipients)

\* C11 witness: a group and more_receiver "b,a" give names that are out of
\* order and repeated as collected, and the result lists each once, sorted.
C11_Witness ==
    /\ notify_pc = "returned"
    /\ notify_result.result
    /\ receiver_group = [isStr |-> TRUE, str |-> << "M" >>, list |-> << >>]
    /\ cc_result.info[1].bk_biz_maintainer = << "b", ",", "a" >>
    /\ more_receiver = << "b", ",", "a" >>
    /\ Recipients = << << "a" >>, << "b" >> >>

====
